---- MODULE Spec2Model ----
(***************************************************************************)
(* Model of the App component of src/src/App.jsx: the React state cells,   *)
(* the mount effect initializeFirebase, the asynchronous function          *)
(* generateKeywordIdeas and the controls that invoke it.                   *)
(*                                                                         *)
(* Strings the code inspects character by character (the seed keyword,     *)
(* the response text, the ideas) are sequences of one-character strings.   *)
(* Messages the code only assembles (the error banner) are sequences of    *)
(* the pieces the template literals concatenate.                           *)
(***************************************************************************)
EXTENDS Integers, Sequences, FiniteSets, TLC

VARIABLES seedKeyword, keywordIdeas, isLoading, error,
          db, auth, userId, bootPc, calls, lastEvent

vars == <<seedKeyword, keywordIdeas, isLoading, error,
          db, auth, userId, bootPc, calls, lastEvent>>

----------------------------------------------------------------------------
(* Bounds of the model *)

MaxSeedLen == 2

MaxTextLen == 4

MaxCalls == 2

----------------------------------------------------------------------------
(* Strings *)

(* The blanks String.prototype.trim removes, of which the model's          *)
(* alphabets hold the space                                                *)
Whitespace == {" "}

SeedChars == {" ", "a"}

TextChars == {" ", "a", ","}

RECURSIVE SeqsUpTo(_, _)
SeqsUpTo(chars, n) ==
    IF n = 0 THEN {<<>>}
    ELSE LET shorter == SeqsUpTo(chars, n - 1)
         IN  shorter \cup {Append(s, c) : s \in shorter, c \in chars}

ExampleText == <<"a", ",", " ", "b", ",", " ", " ", "c", " ", ",", ",", "d">>

(* Every text of at most MaxTextLen characters, and the spec's example *)
Texts == SeqsUpTo(TextChars, MaxTextLen) \cup {ExampleText}

(* The texts the generative-language API answers with in the component's   *)
(* specification: one with no idea and one with several                   *)
ResponseTexts == {<<>>, ExampleText}

(* String.prototype.trim *)
RECURSIVE TrimStart(_)
TrimStart(s) ==
    IF s = <<>> THEN <<>>
    ELSE IF Head(s) \in Whitespace THEN TrimStart(Tail(s))
    ELSE s

RECURSIVE TrimEnd(_)
TrimEnd(s) ==
    IF s = <<>> THEN <<>>
    ELSE IF s[Len(s)] \in Whitespace THEN TrimEnd(SubSeq(s, 1, Len(s) - 1))
    ELSE s

(* Variant: the input is tested without being trimmed *)
Trim_None(s) == s

Trim(s) == TrimEnd(TrimStart(s))

(* String.prototype.split(','): the pieces between commas, empty ones kept *)
RECURSIVE FirstComma(_, _)
FirstComma(s, i) ==
    IF i > Len(s) THEN 0
    ELSE IF s[i] = "," THEN i
    ELSE FirstComma(s, i + 1)

RECURSIVE Split(_)
Split(s) ==
    LET k == FirstComma(s, 1)
    IN  IF k = 0 THEN <<s>>
        ELSE <<SubSeq(s, 1, k - 1)>> \o Split(SubSeq(s, k + 1, Len(s)))

(* Variant: the pieces are stored untrimmed *)
MapTrim_None(pieces) == pieces

(* Array.prototype.map(item => item.trim()) *)
MapTrim(pieces) == [i \in 1..Len(pieces) |-> Trim(pieces[i])]

(* Array.prototype.filter(item => item.length > 0) *)
RECURSIVE FilterNonEmpty(_)
FilterNonEmpty(pieces) ==
    IF pieces = <<>> THEN <<>>
    ELSE IF Len(Head(pieces)) > 0
         THEN <<Head(pieces)>> \o FilterNonEmpty(Tail(pieces))
         ELSE FilterNonEmpty(Tail(pieces))

ParseIdeas(text) == FilterNonEmpty(MapTrim(Split(text)))

----------------------------------------------------------------------------
(* Messages *)

NoError == <<>>

SeedError == <<"Please enter a seed keyword.">>

ShapeError == <<"Could not generate keyword ideas. Please try again.">>

FirebaseError ==
    <<"Failed to initialize Firebase. Some features might be unavailable.">>

FailedPrefix == "Failed to generate ideas: "

PromptPrefix == "Generate a list of 10-15 relevant keyword ideas, including long-tail variations and related phrases, for the seed keyword: '"

PromptSuffix == "'. Focus on keywords that indicate search intent (e.g., informational, commercial, navigational). Format the output as a comma-separated list."

(* Variant: the prompt is built from the trimmed seed *)
BuildPrompt_Trimmed(seed) == <<PromptPrefix>> \o Trim(seed) \o <<PromptSuffix>>

BuildPrompt(seed) == <<PromptPrefix>> \o seed \o <<PromptSuffix>>

----------------------------------------------------------------------------
(* HTTP responses *)

(* A response body as response.json() sees it.  kind: "notjson" (json()     *)
(* rejects), "null" (the JSON value null) or "object".  candidates and     *)
(* parts are array lengths, -1 when the field is absent; content, hasText, *)
(* hasError and hasMessage say whether the field is there.  first and part *)
(* say what candidates[0] and parts[0] are when the arrays have them: an   *)
(* "object" or the JSON value "null".                                      *)
MkBody(kind, cands, content, parts, hasText, text, hasErr, hasMsg, msg) ==
    [kind |-> kind, candidates |-> cands, first |-> "object",
     content |-> content, parts |-> parts, part |-> "object",
     hasText |-> hasText, text |-> text,
     hasError |-> hasErr, hasMessage |-> hasMsg, message |-> msg]

EmptyObject == MkBody("object", -1, FALSE, -1, FALSE, <<>>, FALSE, FALSE, "")

TextBody(t) == MkBody("object", 1, TRUE, 1, TRUE, t, FALSE, FALSE, "")

(* {"candidates":[null]} *)
NullCandidateBody ==
    [MkBody("object", 1, FALSE, -1, FALSE, <<>>, FALSE, FALSE, "")
        EXCEPT !.first = "null"]

(* {"candidates":[{"content":{"parts":[null]}}]} *)
NullPartBody ==
    [MkBody("object", 1, TRUE, 1, FALSE, <<>>, FALSE, FALSE, "")
        EXCEPT !.part = "null"]

ProviderMessages == {"", "quota exceeded"}

(* Bodies that either branch may receive: not JSON, null, {} *)
CommonBodies ==
    {MkBody("notjson", -1, FALSE, -1, FALSE, <<>>, FALSE, FALSE, ""),
     MkBody("null", -1, FALSE, -1, FALSE, <<>>, FALSE, FALSE, ""),
     EmptyObject}

(* Bodies told apart by what lines 102-105 read: candidates and below *)
ResultBodies ==
    {MkBody("object", 0, FALSE, -1, FALSE, <<>>, FALSE, FALSE, ""),
     MkBody("object", 1, FALSE, -1, FALSE, <<>>, FALSE, FALSE, ""),
     MkBody("object", 1, TRUE, -1, FALSE, <<>>, FALSE, FALSE, ""),
     MkBody("object", 1, TRUE, 0, FALSE, <<>>, FALSE, FALSE, ""),
     MkBody("object", 1, TRUE, 1, FALSE, <<>>, FALSE, FALSE, ""),
     NullCandidateBody,
     NullPartBody}
    \cup {TextBody(t) : t \in ResponseTexts}

(* Bodies told apart by what line 97 reads: error and error.message *)
ErrorDataBodies ==
    {MkBody("object", -1, FALSE, -1, FALSE, <<>>, TRUE, FALSE, "")}
    \cup {MkBody("object", -1, FALSE, -1, FALSE, <<>>, TRUE, TRUE, m) :
            m \in ProviderMessages}

Bodies == CommonBodies \cup ResultBodies \cup ErrorDataBodies

Statuses == {200, 500}

(* Response.ok *)
IsOk(status) == status \in 200..299

(* The bodies tried with a response of this status: those the branch the   *)
(* code takes on it can tell apart                                         *)
BodiesFor(status) ==
    CommonBodies \cup (IF IsOk(status) THEN ResultBodies ELSE ErrorDataBodies)

(* err.message of what the JavaScript engine or fetch throws; the body    *)
(* that is not JSON is the text Internal Server Error                      *)
FetchFailedMessage == <<"Failed to fetch">>

JsonSyntaxMessage == <<"Unexpected token 'I', \"Internal S\"... is not valid JSON">>

NullResultMessage == <<"Cannot read properties of null (reading 'candidates')">>

NullErrorDataMessage == <<"Cannot read properties of null (reading 'error')">>

NullCandidateMessage == <<"Cannot read properties of null (reading 'content')">>

NullPartMessage == <<"Cannot read properties of null (reading 'text')">>

UndefinedTextMessage == <<"Cannot read properties of undefined (reading 'split')">>

(* `API error: ${response.status} - ${errorData.error?.message || 'Unknown error'}` *)
ApiErrorMessage(status, body) ==
    <<"API error: ", ToString(status), " - ",
      IF body.hasError /\ body.hasMessage /\ body.message # ""
      THEN body.message ELSE "Unknown error">>

Thrown(message) == [path |-> "thrown", ideas |-> <<>>, message |-> message]

(* What the code after `await fetch` does with a response whose body is    *)
(* `body`: which path it takes, the ideas it stores, the message it throws *)
ErrorResponse(status, body) ==
    IF body.kind = "notjson" THEN Thrown(JsonSyntaxMessage)
    ELSE IF body.kind = "null" THEN Thrown(NullErrorDataMessage)
    ELSE Thrown(ApiErrorMessage(status, body))

OkResponse(body) ==
    IF body.kind = "notjson" THEN Thrown(JsonSyntaxMessage)
    ELSE IF body.kind = "null" THEN Thrown(NullResultMessage)
    ELSE IF body.candidates >= 0 /\ body.candidates > 0
         THEN IF body.first = "null" THEN Thrown(NullCandidateMessage)
              ELSE IF body.content /\ body.parts >= 0 /\ body.parts > 0
              THEN IF body.part = "null" THEN Thrown(NullPartMessage)
                   ELSE IF body.hasText
                   THEN [path |-> "ideas", ideas |-> ParseIdeas(body.text),
                         message |-> <<>>]
                   ELSE Thrown(UndefinedTextMessage)
              ELSE [path |-> "shape", ideas |-> <<>>, message |-> <<>>]
         ELSE [path |-> "shape", ideas |-> <<>>, message |-> <<>>]

HandleResponse(status, body) ==
    IF ~IsOk(status) THEN ErrorResponse(status, body) ELSE OkResponse(body)

----------------------------------------------------------------------------
(* Identity *)

NoUser == "null"

Uids == {"u1"}

RandomIds == {"r1", "r2"}

Configs == {"absent", "present", "malformed"}

----------------------------------------------------------------------------
(* State after the first render: the useState initial values, the mount    *)
(* effect not yet run, no generation call made                             *)

(* The handler that ran last and what it was given: "generate" with the    *)
(* prompt of the request it issued (NoRequest when it issued none),        *)
(* "settle" with the status and body of the response that ended a call     *)
(* (status 0 when fetch rejected), "other" for every other handler         *)
NoRequest == <<>>

Event(op, request, status, body) ==
    [op |-> op, request |-> request, status |-> status, body |-> body]

OtherEvent == Event("other", NoRequest, 0, EmptyObject)

Init ==
    /\ seedKeyword = <<>>
    /\ keywordIdeas = <<>>
    /\ isLoading = FALSE
    /\ error = NoError
    /\ db = "null"
    /\ auth = "null"
    /\ userId = NoUser
    /\ bootPc = "mount"
    /\ calls = <<>>
    /\ lastEvent = OtherEvent

identity == <<db, auth, userId, bootPc>>

generation == <<keywordIdeas, isLoading, calls>>

----------------------------------------------------------------------------
(* Identity bootstrap: initializeFirebase *)

(* Variant: the catch block reports the failure and assigns no identity *)
BootCatch_NoIdentity ==
    /\ error' = FirebaseError
    /\ userId' = userId
    /\ bootPc' = "failed"

(* catch (err) { setError(...); setUserId(crypto.randomUUID()); } *)
BootCatch ==
    /\ error' = FirebaseError
    /\ \E r \in RandomIds : userId' = r
    /\ bootPc' = "failed"

(* The effect runs: the configuration is read and parsed *)
BootStart ==
    /\ bootPc = "mount"
    /\ \E cfg \in Configs :
         \/ /\ cfg = "malformed"
            /\ BootCatch
         \/ /\ cfg = "absent"
            /\ \E r \in RandomIds : userId' = r
            /\ bootPc' = "noconfig"
            /\ UNCHANGED error
         \/ /\ cfg = "present"
            /\ bootPc' = "import_app"
            /\ UNCHANGED <<error, userId>>
    /\ lastEvent' = OtherEvent
    /\ UNCHANGED <<db, auth, seedKeyword, generation>>

(* One of the first two dynamic imports settles *)
BootImport ==
    /\ bootPc \in {"import_app", "import_auth"}
    /\ \/ /\ bootPc' = IF bootPc = "import_app" THEN "import_auth"
                       ELSE "import_firestore"
          /\ UNCHANGED <<error, userId>>
       \/ BootCatch
    /\ lastEvent' = OtherEvent
    /\ UNCHANGED <<db, auth, seedKeyword, generation>>

(* The last import settles; initializeApp, getFirestore, getAuth run,      *)
(* db and auth are stored and the sign-in is started                       *)
BootClients ==
    /\ bootPc = "import_firestore"
    /\ \/ /\ db' = "firestore"
          /\ auth' = "auth"
          /\ bootPc' = "signin"
          /\ UNCHANGED <<error, userId>>
       \/ /\ BootCatch
          /\ UNCHANGED <<db, auth>>
    /\ lastEvent' = OtherEvent
    /\ UNCHANGED <<seedKeyword, generation>>

(* Variant: the catch block also clears the loading flag *)
BootSignIn_ClearsLoading ==
    /\ bootPc = "signin"
    /\ \/ /\ bootPc' = "subscribed"
          /\ UNCHANGED <<error, userId, isLoading>>
       \/ /\ BootCatch
          /\ isLoading' = FALSE
    /\ lastEvent' = OtherEvent
    /\ UNCHANGED <<db, auth, seedKeyword, keywordIdeas, calls>>

(* signInWithCustomToken / signInAnonymously settles; on success the       *)
(* listener is registered                                                  *)
BootSignIn ==
    /\ bootPc = "signin"
    /\ \/ /\ bootPc' = "subscribed"
          /\ UNCHANGED <<error, userId>>
       \/ BootCatch
    /\ lastEvent' = OtherEvent
    /\ UNCHANGED <<db, auth, seedKeyword, generation>>

(* Variant: with no user the listener stores null, setUserId(null) *)
AuthStateChanged_NullUser(user) ==
    /\ bootPc = "subscribed"
    /\ userId' = user
    /\ lastEvent' = OtherEvent
    /\ UNCHANGED <<db, auth, bootPc, error, seedKeyword, generation>>

(* The onAuthStateChanged listener is called *)
AuthStateChanged(user) ==
    /\ bootPc = "subscribed"
    /\ IF user # NoUser
       THEN userId' = user
       ELSE \E r \in RandomIds : userId' = r
    /\ lastEvent' = OtherEvent
    /\ UNCHANGED <<db, auth, bootPc, error, seedKeyword, generation>>

----------------------------------------------------------------------------
(* Idea generation: generateKeywordIdeas *)

(* calls holds one record per call that got past the validation, in the   *)
(* order they started: where the call is suspended ("fetch": awaiting      *)
(* fetch, "json": awaiting response.json(), "done": returned) and the      *)
(* status of the response it holds while it awaits the body                *)
Call(pc, status) == [pc |-> pc, status |-> status]

(* Variant: the list is cleared before the input is validated *)
GenerateKeywordIdeas_ClearsFirst ==
    IF Trim(seedKeyword) = <<>>
    THEN /\ error' = SeedError
         /\ keywordIdeas' = <<>>
         /\ lastEvent' = Event("generate", NoRequest, 0, EmptyObject)
         /\ UNCHANGED <<isLoading, calls>>
    ELSE /\ Len(calls) < MaxCalls
         /\ isLoading' = TRUE
         /\ error' = NoError
         /\ keywordIdeas' = <<>>
         /\ calls' = Append(calls, Call("fetch", 0))
         /\ lastEvent' = Event("generate", BuildPrompt(seedKeyword), 0, EmptyObject)

(* From the call to the first await: the validation, the three state       *)
(* writes, the prompt and the fetch                                        *)
GenerateKeywordIdeas ==
    IF Trim(seedKeyword) = <<>>
    THEN /\ error' = SeedError
         /\ lastEvent' = Event("generate", NoRequest, 0, EmptyObject)
         /\ UNCHANGED <<isLoading, keywordIdeas, calls>>
    ELSE /\ Len(calls) < MaxCalls
         /\ isLoading' = TRUE
         /\ error' = NoError
         /\ keywordIdeas' = <<>>
         /\ calls' = Append(calls, Call("fetch", 0))
         /\ lastEvent' =
              Event("generate", BuildPrompt(seedKeyword), 0, EmptyObject)

(* The values the input can hold after one keystroke: a character typed   *)
(* at the end, or the last character deleted                               *)
Edits(s) ==
    (IF Len(s) < MaxSeedLen THEN {Append(s, c) : c \in SeedChars} ELSE {})
    \cup (IF Len(s) > 0 THEN {SubSeq(s, 1, Len(s) - 1)} ELSE {})

(* onChange of the input: setSeedKeyword(e.target.value) *)
ChangeSeed(s) ==
    /\ seedKeyword' = s
    /\ lastEvent' = OtherEvent
    /\ UNCHANGED <<error, identity, generation>>

(* onClick of the button, which is disabled while isLoading *)
ClickGenerate ==
    /\ ~isLoading
    /\ GenerateKeywordIdeas
    /\ UNCHANGED <<seedKeyword, identity>>

(* onKeyPress of the input with e.key === 'Enter' *)
PressEnter ==
    /\ GenerateKeywordIdeas
    /\ UNCHANGED <<seedKeyword, identity>>

(* Variant: setIsLoading(false) as the last statement of the try block,   *)
(* not in a finally block                                                  *)
Complete_NoFinally(i, outcome) ==
    /\ calls' = [calls EXCEPT ![i] = Call("done", 0)]
    /\ IF outcome.path = "ideas"
       THEN keywordIdeas' = outcome.ideas /\ isLoading' = FALSE
            /\ UNCHANGED error
       ELSE IF outcome.path = "shape"
       THEN error' = ShapeError /\ isLoading' = FALSE
            /\ UNCHANGED keywordIdeas
       ELSE error' = <<FailedPrefix>> \o outcome.message
            /\ UNCHANGED <<keywordIdeas, isLoading>>

(* try/catch/finally around the awaits: what call i writes when it ends *)
Complete(i, outcome) ==
    /\ calls' = [calls EXCEPT ![i] = Call("done", 0)]
    /\ isLoading' = FALSE
    /\ IF outcome.path = "ideas"
       THEN keywordIdeas' = outcome.ideas /\ UNCHANGED error
       ELSE IF outcome.path = "shape"
       THEN error' = ShapeError /\ UNCHANGED keywordIdeas
       ELSE error' = <<FailedPrefix>> \o outcome.message
            /\ UNCHANGED keywordIdeas

(* fetch resolves with a response of some status *)
FetchResolve(i, status) ==
    /\ i \in 1..Len(calls)
    /\ calls[i].pc = "fetch"
    /\ calls' = [calls EXCEPT ![i] = Call("json", status)]
    /\ lastEvent' = OtherEvent
    /\ UNCHANGED <<seedKeyword, keywordIdeas, isLoading, error, identity>>

(* fetch rejects *)
FetchReject(i) ==
    /\ i \in 1..Len(calls)
    /\ calls[i].pc = "fetch"
    /\ Complete(i, Thrown(FetchFailedMessage))
    /\ lastEvent' = Event("settle", NoRequest, 0, EmptyObject)
    /\ UNCHANGED <<seedKeyword, identity>>

(* response.json() settles and the rest of the function runs *)
JsonSettle(i, body) ==
    /\ i \in 1..Len(calls)
    /\ calls[i].pc = "json"
    /\ Complete(i, HandleResponse(calls[i].status, body))
    /\ lastEvent' = Event("settle", NoRequest, calls[i].status, body)
    /\ UNCHANGED <<seedKeyword, identity>>

(* response.json() of call i settles with a body tried with its status *)
BodySettle(i, body) ==
    /\ i \in 1..Len(calls)
    /\ body \in BodiesFor(calls[i].status)
    /\ JsonSettle(i, body)

----------------------------------------------------------------------------

Next ==
    \/ BootStart
    \/ BootImport
    \/ BootClients
    \/ BootSignIn
    \/ \E user \in Uids \cup {NoUser} : AuthStateChanged(user)
    \/ \E s \in Edits(seedKeyword) : ChangeSeed(s)
    \/ ClickGenerate
    \/ PressEnter
    \/ \E i \in 1..MaxCalls, status \in Statuses : FetchResolve(i, status)
    \/ \E i \in 1..MaxCalls : FetchReject(i)
    \/ \E i \in 1..MaxCalls, body \in Bodies : BodySettle(i, body)

Spec == Init /\ [][Next]_vars

(* Every request the network completes: fetch settles, and so does the     *)
(* parsing of the body                                                     *)
Settle(i) ==
    \/ FetchReject(i)
    \/ \E status \in Statuses : FetchResolve(i, status)
    \/ \E body \in Bodies : BodySettle(i, body)

FairSpec == Spec /\ \A i \in 1..MaxCalls : WF_vars(Settle(i))

(* The generation calls alone, before the mount effect has run: the        *)
(* bootstrap's steps write none of seedKeyword, keywordIdeas, isLoading    *)
(* and calls and enable or disable no step of a call (C10_SharesOnlyError) *)
GenerationNext ==
    \/ \E s \in Edits(seedKeyword) : ChangeSeed(s)
    \/ ClickGenerate
    \/ PressEnter
    \/ \E i \in 1..MaxCalls : Settle(i)

GenerationFairSpec ==
    /\ Init
    /\ [][GenerationNext]_vars
    /\ \A i \in 1..MaxCalls : WF_vars(Settle(i))

(* The response handler applied to every text of at most MaxTextLen        *)
(* characters: from the state in which the first call, made with the seed  *)
(* "a", awaits the body of a 200 response                                  *)
ParseInit ==
    /\ seedKeyword = <<"a">>
    /\ keywordIdeas = <<>>
    /\ isLoading = TRUE
    /\ error = NoError
    /\ db = "null"
    /\ auth = "null"
    /\ userId = NoUser
    /\ bootPc = "mount"
    /\ calls = <<Call("json", 200)>>
    /\ lastEvent = OtherEvent

ParseNext == \E t \in Texts : JsonSettle(1, TextBody(t))

ParseSpec == ParseInit /\ [][ParseNext]_vars

----------------------------------------------------------------------------
(* Vocabulary of the claims *)

InFlight == {i \in 1..Len(calls) : calls[i].pc # "done"}

IsBlank(s) == \A k \in 1..Len(s) : s[k] \in Whitespace

Contains(hay, needle) ==
    \E k \in 0..(Len(hay) - Len(needle)) :
        SubSeq(hay, k + 1, k + Len(needle)) = needle

HasPiece(message, piece) == \E k \in 1..Len(message) : message[k] = piece

HasFailedPrefix(message) == Len(message) >= 1 /\ message[1] = FailedPrefix

(* candidates[0].content.parts[0].text is there *)
ShapePresent(body) ==
    /\ body.kind = "object"
    /\ body.candidates >= 1
    /\ body.content
    /\ body.parts >= 1
    /\ body.hasText

(* error.message of the body, "Unknown error" when the provider gave none *)
ProviderMessage(body) ==
    IF body.kind = "object" /\ body.hasError /\ body.hasMessage
       /\ body.message # ""
    THEN body.message
    ELSE "Unknown error"

Generated == lastEvent.op = "generate"

Settled == lastEvent.op = "settle"

----------------------------------------------------------------------------
(* C1: the loading flag is true if and only if a generation call has       *)
(* started and not yet completed.                                          *)
C1_LoadingIffInFlight == isLoading <=> (InFlight # {})

(* C2: at most one generation network request is in flight at any time.    *)
C2_AtMostOneInFlight == Cardinality(InFlight) <= 1

----------------------------------------------------------------------------
(* C3, as claimed: once the identity is assigned it never changes.         *)
C3_AssignedOnce == [][userId # NoUser => userId' = userId]_vars

(* C3, amended: the identity is null exactly until the bootstrap first     *)
(* assigns it and never returns to null; on the two fallback paths         *)
(* (configuration absent, a bootstrap step threw) it is a random           *)
(* identifier assigned once; it changes after its first assignment only by *)
(* a call of the sign-in-state listener, which assigns it every time.      *)
C3_IdentityAmended ==
    /\ [](/\ bootPc \in {"noconfig", "failed"} => userId \in RandomIds
          /\ bootPc \notin {"noconfig", "failed", "subscribed"}
                => userId = NoUser)
    /\ [][/\ userId # NoUser => userId' # NoUser
          /\ (userId # NoUser /\ userId' # userId)
                => (bootPc = "subscribed" /\ bootPc' = "subscribed")]_vars

(* The listener has been called with a user and then with none *)
C3_Witness ==
    /\ bootPc = "subscribed"
    /\ userId \in RandomIds

(* C4: for empty or whitespace-only input, invoking generation issues no   *)
(* network request and sets the error message to exactly                   *)
(* "Please enter a seed keyword.".                                         *)
C4_BlankInput ==
    [][(Generated' /\ IsBlank(seedKeyword))
         => /\ calls' = calls
            /\ lastEvent'.request = NoRequest
            /\ error' = SeedError]_vars

(* Generation was invoked on a whitespace-only input *)
C4_Witness ==
    /\ Generated
    /\ seedKeyword # <<>>
    /\ IsBlank(seedKeyword)
    /\ lastEvent.request = NoRequest
    /\ error = SeedError

(* C5: for input whose trimmed form is non-empty, each submission issues   *)
(* exactly one network request, whose prompt contains the input verbatim.  *)
C5_OneRequestVerbatim ==
    [][(Generated' /\ ~IsBlank(seedKeyword))
         => /\ Len(calls') = Len(calls) + 1
            /\ SubSeq(calls', 1, Len(calls)) = calls
            /\ calls'[Len(calls')].pc = "fetch"
            /\ lastEvent'.request # NoRequest
            /\ Contains(lastEvent'.request, seedKeyword)]_vars

(* A request was issued for an input with a leading blank *)
C5_Witness ==
    /\ Generated
    /\ Len(seedKeyword) > 1
    /\ seedKeyword[1] \in Whitespace
    /\ ~IsBlank(seedKeyword)
    /\ Contains(lastEvent.request, seedKeyword)
    /\ Len(calls) >= 1

----------------------------------------------------------------------------
(* C6: when candidates[0].content.parts[0].text is absent from the body of *)
(* a successful response, in any way, the error message is exactly "Could  *)
(* not generate keyword ideas. Please try again." and the idea list stays  *)
(* empty.  Stated for the first call alone, so that no other call writes.  *)
C6_ShapeAbsentHandled ==
    (/\ Settled
     /\ Len(calls) = 1
     /\ IsOk(lastEvent.status)
     /\ lastEvent.body.kind = "object"
     /\ ~ShapePresent(lastEvent.body))
    => (error = ShapeError /\ keywordIdeas = <<>>)

(* C7: after an HTTP failure response the error message is "Failed to      *)
(* generate ideas: " followed by text containing the status code and the   *)
(* provider's message, or "Unknown error" when it gave none (no error      *)
(* field, a null body, a body that is not JSON).                           *)
C7_HttpFailureMessage ==
    (/\ Settled
     /\ lastEvent.status # 0
     /\ ~IsOk(lastEvent.status))
    => /\ HasFailedPrefix(error)
       /\ HasPiece(Tail(error), ToString(lastEvent.status))
       /\ HasPiece(Tail(error), ProviderMessage(lastEvent.body))

(* The responses on which the code after `await fetch` raises an error:    *)
(* none at all (fetch rejected), an HTTP failure, a body that is not a     *)
(* JSON object, a first candidate that is null, a first part that is null  *)
(* or has no text                                                          *)
Throws(status, body) ==
    \/ status = 0
    \/ ~IsOk(status)
    \/ body.kind # "object"
    \/ (body.candidates >= 1 /\ body.first = "null")
    \/ (body.candidates >= 1 /\ body.content /\ body.parts >= 1
        /\ ~body.hasText)

(* C8: every generation call whose request and body parsing complete sets  *)
(* the loading flag to false, whatever the path; every thrown error is     *)
(* caught and leaves an error message prefixed "Failed to generate         *)
(* ideas: "; and when every request completes the loading flag, once true, *)
(* becomes false again.                                                    *)
C8_LoadingCleared ==
    /\ [][Settled'
           => /\ ~isLoading'
              /\ Throws(lastEvent'.status, lastEvent'.body)
                   => HasFailedPrefix(error')]_vars
    /\ (isLoading ~> ~isLoading)

(* A call ended on the thrown path *)
C8_Witness ==
    /\ Settled
    /\ Throws(lastEvent.status, lastEvent.body)
    /\ IsOk(lastEvent.status)
    /\ ~isLoading
    /\ HasFailedPrefix(error)

----------------------------------------------------------------------------
(* The idea list the claim describes, computed from the positions of the   *)
(* commas: the pieces are the stretches between neighbouring commas (and   *)
(* the ends of the text); a piece with a non-blank character contributes   *)
(* what lies between its first and its last non-blank character.           *)
Fences(t) == {0, Len(t) + 1} \cup {k \in 1..Len(t) : t[k] = ","}

NextFence(t, f) ==
    CHOOSE g \in Fences(t) :
        g > f /\ \A h \in Fences(t) : h > f => g <= h

Inked(t, f) ==
    {k \in (f + 1)..(NextFence(t, f) - 1) : t[k] \notin Whitespace}

Least(S) == CHOOSE x \in S : \A y \in S : x <= y

Greatest(S) == CHOOSE x \in S : \A y \in S : y <= x

KeptFences(t) == {f \in Fences(t) : f <= Len(t) /\ Inked(t, f) # {}}

ExpectedIdeas(t) ==
    [n \in 1..Cardinality(KeptFences(t)) |->
        LET f == CHOOSE g \in KeptFences(t) :
                    Cardinality({h \in KeptFences(t) : h <= g}) = n
        IN  SubSeq(t, Least(Inked(t, f)), Greatest(Inked(t, f)))]

(* C9: the stored idea list is the extracted text split on commas, each    *)
(* piece trimmed, empty pieces dropped, order kept; so every element of    *)
(* the idea list is non-empty with no blank at either end; and             *)
(* "a, b,  c ,,d" yields a, b, c, d.                                       *)
C9_IdeasParsed ==
    /\ \A n \in 1..Len(keywordIdeas) :
         /\ keywordIdeas[n] # <<>>
         /\ Head(keywordIdeas[n]) \notin Whitespace
         /\ keywordIdeas[n][Len(keywordIdeas[n])] \notin Whitespace
         /\ ~HasPiece(keywordIdeas[n], ",")
    /\ (Settled /\ IsOk(lastEvent.status) /\ ShapePresent(lastEvent.body))
         => /\ keywordIdeas = ExpectedIdeas(lastEvent.body.text)
            /\ lastEvent.body.text = ExampleText
                 => keywordIdeas = <<(<<"a">>), (<<"b">>), (<<"c">>), (<<"d">>)>>

(* The example text was received and parsed *)
C9_Witness ==
    /\ Settled
    /\ lastEvent.body = TextBody(ExampleText)
    /\ Len(keywordIdeas) = 4

----------------------------------------------------------------------------
(* C10, as claimed: nothing a generation call does changes what the        *)
(* bootstrap has written.                                                  *)
C10_NoSharedState ==
    [][(Generated' \/ Settled')
         => /\ identity' = identity
            /\ error = FirebaseError => error' = FirebaseError]_vars

(* C10, amended: generation and bootstrap share the error message and      *)
(* nothing else.  A generation step (an invocation or a completion) leaves *)
(* db, auth, the identity and the bootstrap's position unchanged; a        *)
(* bootstrap step leaves the seed keyword, the idea list, the loading flag *)
(* and the calls unchanged and writes the error message only when it       *)
(* fails.                                                                  *)
C10_SharesOnlyError ==
    [][/\ (Generated' \/ Settled') => identity' = identity
       /\ identity' # identity
            => /\ UNCHANGED <<seedKeyword, keywordIdeas, isLoading, calls>>
               /\ error' # error
                    => (error' = FirebaseError /\ bootPc' = "failed")]_vars

(* The bootstrap failed while a generation call was in flight *)
C10_Witness ==
    /\ bootPc = "failed"
    /\ db = "firestore"
    /\ error = FirebaseError
    /\ isLoading
    /\ InFlight # {}

----------------------------------------------------------------------------
(* C11: the bootstrap falls back to a randomly generated identifier when   *)
(* the configuration is absent and when a bootstrap step throws; it writes *)
(* the bootstrap error message on the throw path and nowhere else (with    *)
(* the configuration absent the error message is left as it was); and in   *)
(* both fallback cases the identity is non-null once the task has ended.   *)
C11_Fallback ==
    /\ [](bootPc \in {"noconfig", "failed"} => userId # NoUser)
    /\ [][/\ (bootPc # "noconfig" /\ bootPc' = "noconfig")
               => (userId' \in RandomIds /\ error' = error)
          /\ (bootPc # "failed" /\ bootPc' = "failed")
               => (userId' \in RandomIds /\ error' = FirebaseError)
          /\ (error' = FirebaseError /\ error # FirebaseError)
               => (bootPc # "failed" /\ bootPc' = "failed")]_vars

(* The sign-in threw after db and auth were stored *)
C11_Witness ==
    /\ bootPc = "failed"
    /\ auth = "auth"
    /\ error = FirebaseError
    /\ userId \in RandomIds

----------------------------------------------------------------------------
(* C12, as claimed: a valid generation call starts by clearing the idea    *)
(* list and the error message; and when a call ends and leaves no call in  *)
(* flight, the idea list is the parsed response of the most recently       *)
(* started call, or empty if that call failed. The most recently started   *)
(* call is the last of calls. When it is the one that ends, the list is    *)
(* what its response gives. When two calls were started and the earlier    *)
(* one ends last, the list already holds the result of the later one and   *)
(* must stay as it is.                                                     *)
LatestResult(status, body) ==
    IF IsOk(status) /\ ShapePresent(body)
    THEN ExpectedIdeas(body.text)
    ELSE <<>>

C12_LatestCallWins ==
    [][/\ (Generated' /\ ~IsBlank(seedKeyword))
           => (keywordIdeas' = <<>> /\ error' = NoError)
       /\ \A i \in InFlight :
            (InFlight = {i} /\ calls'[i].pc = "done")
              => IF i = Len(calls)
                 THEN keywordIdeas'
                        = LatestResult(lastEvent'.status, lastEvent'.body)
                 ELSE Len(calls) = 2 => keywordIdeas' = keywordIdeas]_vars

----------------------------------------------------------------------------
(* C13: a validation failure (empty or whitespace-only input) changes only *)
(* the error message: the idea list, the loading flag, the seed keyword    *)
(* and the identity are left unchanged, so ideas from an earlier           *)
(* successful call remain in the list alongside the validation error.      *)
C13_ValidationFrame ==
    [][(Generated' /\ IsBlank(seedKeyword))
         => /\ keywordIdeas' = keywordIdeas
            /\ isLoading' = isLoading
            /\ seedKeyword' = seedKeyword
            /\ userId' = userId
            /\ <<db, auth>>' = <<db, auth>>]_vars

(* The validation error stands beside the ideas of an earlier call *)
C13_Witness ==
    /\ Generated
    /\ IsBlank(seedKeyword)
    /\ error = SeedError
    /\ keywordIdeas # <<>>

====
